---------------------------- MODULE Spec2Model ----------------------------
(***************************************************************************)
(* Model of the collaborative editor of black-MLops                        *)
(* (src/services/collab-editor/collab_service.py): Operation, Document,    *)
(* OperationalTransform, CollaborativeSession and CollabEditorService.     *)
(*                                                                         *)
(* A Python str is a sequence of one-character strings.  A dict is a       *)
(* function whose DOMAIN is the set of its keys.  An Operation is a record *)
(* of the dataclass's fields (timestamp is never read and is left out);    *)
(* the field position_is_int says whether the value bound to `position`    *)
(* is an int: the dataclass annotations are not enforced and the websocket *)
(* endpoint (api-gateway/main.py:243-249) builds the Operation from raw    *)
(* JSON, so a position such as "1" reaches apply_operation.                *)
(***************************************************************************)
EXTENDS Integers, Sequences, FiniteSets, TLC

VARIABLES
    sessions,   \* CollabEditorService.sessions: session id -> CollaborativeSession
    call,       \* the last call made to the service: its method and arguments
    result,     \* the value that call returned
    otA,        \* transform harness: operation a, generated against otBase
    otB,        \* transform harness: operation b, generated against otBase
    otBase,     \* transform harness: the content both operations were generated against
    replica,    \* transform harness: "left" applies a, then transform(a, b);
                \* "right" applies b, then transform(b, a)
    tasks,      \* websocket connections: each one's position in websocket_collab
                \* and the locals of the call it is in
    jobs,           \* the TrainingJob objects, in the order they were built
    active_jobs,    \* LLMTrainingService.active_jobs: job id -> TrainingJob object
    completed_jobs, \* LLMTrainingService.completed_jobs: list of TrainingJob objects
    starts          \* the calls of start_training: position, locals, outcome

vars == <<sessions, call, result, otA, otB, otBase, replica, tasks,
          jobs, active_jobs, completed_jobs, starts>>
otVars == <<otA, otB, otBase, replica>>
trainVars == <<jobs, active_jobs, completed_jobs, starts>>

(***************************************************************************)
(* Bounds and input sets                                                   *)
(***************************************************************************)
\* Spec: submissions are accepted while the document version is below this.
MaxVersion == 2
\* SpecScenario: the same, one step deeper (the scenarios of spec section 8
\* need an insert followed by two concurrent operations).
MaxDepth == 3
\* SpecOT: the base contents are the prefixes of "abc" up to this length.
MaxLen == 3

Min(a, b) == IF a < b THEN a ELSE b
Max(a, b) == IF a > b THEN a ELSE b

Hello == <<"h", "e", "l", "l", "o">>
XX == <<"X", "X">>

SessionIds == {"s1"}
UnknownSessionIds == {"s2"}
DocumentIds == {"d1"}
UserIds == {"user1", "user2"}
Positions == {0, 2}
Payloads == {XX, Hello}
Types == {"insert", "delete"}

Username(uid) == IF uid = "user1" THEN "Alice" ELSE "Bob"

(***************************************************************************)
(* Python slicing: s[:p] and s[p:] never raise for an int p; a negative p  *)
(* counts from the end and every index is clamped to [0, len(s)].          *)
(***************************************************************************)
SliceIndex(s, p) == IF p < 0 THEN Max(Len(s) + p, 0) ELSE Min(p, Len(s))
SliceTo(s, p) == SubSeq(s, 1, SliceIndex(s, p))
SliceFrom(s, p) == SubSeq(s, SliceIndex(s, p) + 1, Len(s))

(***************************************************************************)
(* Operation, User, Document                                               *)
(***************************************************************************)
Operation(type, position, content, user_id, version) ==
    [type |-> type, position |-> position, content |-> content,
     user_id |-> user_id, version |-> version, position_is_int |-> TRUE]

\* An Operation whose position came off the wire as a JSON string.
MalformedOperation(type, content, user_id, version) ==
    [type |-> type, position |-> 0, content |-> content,
     user_id |-> user_id, version |-> version, position_is_int |-> FALSE]

User(id, username) == [id |-> id, username |-> username, cursor_position |-> 0]

Document(doc_id, initial_content) ==
    [id |-> doc_id, content |-> initial_content, version |-> 0,
     operations_history |-> <<>>]

\* Document.apply_operation.  The only expressions that can raise are the
\* slices of the insert branch and the end_pos sum of the delete branch (a
\* position that is not an int); a type that is neither 'insert' nor 'delete'
\* evaluates neither.
Raises(operation) ==
    /\ operation.type \in {"insert", "delete"}
    /\ ~operation.position_is_int

\* A variant whose delete removes the range only if it holds the payload.
NewContent_matches_payload(content, operation) ==
    IF operation.type = "insert"
    THEN SliceTo(content, operation.position)
            \o operation.content
            \o SliceFrom(content, operation.position)
    ELSE IF operation.type = "delete"
    THEN LET end_pos == operation.position + Len(operation.content)
         IN  IF SubSeq(content, SliceIndex(content, operation.position) + 1,
                       SliceIndex(content, end_pos)) = operation.content
             THEN SliceTo(content, operation.position) \o SliceFrom(content, end_pos)
             ELSE content
    ELSE content

\* The value assigned to self.content (the content itself for another type).
NewContent(content, operation) ==
    IF operation.type = "insert"
    THEN SliceTo(content, operation.position)
            \o operation.content
            \o SliceFrom(content, operation.position)
    ELSE IF operation.type = "delete"
    THEN LET end_pos == operation.position + Len(operation.content)
         IN  SliceTo(content, operation.position) \o SliceFrom(content, end_pos)
    ELSE content

\* apply_operation with the version counted before the slices are evaluated.
apply_operation_counts_failures(doc, operation) ==
    IF Raises(operation)
    THEN [ok |-> FALSE, document |-> [doc EXCEPT !.version = doc.version + 1]]
    ELSE [ok |-> TRUE,
          document |-> [doc EXCEPT
              !.content = NewContent(doc.content, operation),
              !.version = doc.version + 1,
              !.operations_history = Append(doc.operations_history, operation)]]

\* apply_operation with the append inside the insert branch only.
apply_operation_unlogged_delete(doc, operation) ==
    IF Raises(operation)
    THEN [ok |-> FALSE, document |-> doc]
    ELSE [ok |-> TRUE,
          document |-> [doc EXCEPT
              !.content = NewContent(doc.content, operation),
              !.version = doc.version + 1,
              !.operations_history =
                  IF operation.type = "delete" THEN doc.operations_history
                  ELSE Append(doc.operations_history, operation)]]

\* apply_operation with operations_history.insert(0, operation).
apply_operation_prepends(doc, operation) ==
    IF Raises(operation)
    THEN [ok |-> FALSE, document |-> doc]
    ELSE [ok |-> TRUE,
          document |-> [doc EXCEPT
              !.content = NewContent(doc.content, operation),
              !.version = doc.version + 1,
              !.operations_history = <<operation>> \o doc.operations_history]]

\* apply_operation with the append before the slices are evaluated.
apply_operation_logs_first(doc, operation) ==
    IF Raises(operation)
    THEN [ok |-> FALSE,
          document |-> [doc EXCEPT
              !.operations_history = Append(doc.operations_history, operation)]]
    ELSE [ok |-> TRUE,
          document |-> [doc EXCEPT
              !.content = NewContent(doc.content, operation),
              !.version = doc.version + 1,
              !.operations_history = Append(doc.operations_history, operation)]]

\* The new document and the value returned.  The raising expressions come
\* before the assignment to self.content, so the except branch leaves the
\* document as it was.
apply_operation(doc, operation) ==
    IF Raises(operation)
    THEN [ok |-> FALSE, document |-> doc]
    ELSE [ok |-> TRUE,
          document |-> [doc EXCEPT
              !.content = NewContent(doc.content, operation),
              !.version = doc.version + 1,
              !.operations_history = Append(doc.operations_history, operation)]]

(***************************************************************************)
(* OperationalTransform.transform(op1, op2): op2 is changed in place and   *)
(* returned; the value here is the state of op2 after the call.            *)
(***************************************************************************)
transform(op1, op2) ==
    IF op1.type = "insert" /\ op2.type = "insert"
    THEN IF op1.position <= op2.position
         THEN [op2 EXCEPT !.position = op2.position + Len(op1.content)]
         ELSE op2
    ELSE IF op1.type = "delete" /\ op2.type = "insert"
    THEN IF op1.position < op2.position
         THEN [op2 EXCEPT !.position = op2.position - Len(op1.content)]
         ELSE op2
    ELSE IF op1.type = "insert" /\ op2.type = "delete"
    THEN IF op1.position <= op2.position
         THEN [op2 EXCEPT !.position = op2.position + Len(op1.content)]
         ELSE op2
    ELSE op2

(***************************************************************************)
(* CollaborativeSession                                                    *)
(***************************************************************************)
\* The call as it acts on the heap: the two argument objects after the call
\* (op2 is assigned in place) and the object the call returns (op2 itself).
transform_call(op1, op2) ==
    [op1 |-> op1, op2 |-> transform(op1, op2), returned |-> "op2"]

CollaborativeSession(session_id, document_id) ==
    [id |-> session_id, document |-> Document(document_id, <<>>),
     users |-> <<>>, pending_operations |-> <<>>]

DictSet(d, k, v) == [x \in DOMAIN d \cup {k} |-> IF x = k THEN v ELSE d[x]]
DictPop(d, k) == [x \in DOMAIN d \ {k} |-> d[x]]

\* A variant that keeps the entry of a user id that is already present.
add_user_keeps_existing(session, user) ==
    IF user.id \in DOMAIN session.users
    THEN session
    ELSE [session EXCEPT !.users = DictSet(session.users, user.id, user)]

add_user(session, user) ==
    [session EXCEPT !.users = DictSet(session.users, user.id, user)]

\* A variant that also withdraws the operations the user had submitted.
remove_user_drops_operations(session, user_id) ==
    IF user_id \in DOMAIN session.users
    THEN [session EXCEPT
            !.users = DictPop(session.users, user_id),
            !.document.operations_history =
                SelectSeq(session.document.operations_history,
                          LAMBDA op : op.user_id # user_id)]
    ELSE session

remove_user(session, user_id) ==
    IF user_id \in DOMAIN session.users
    THEN [session EXCEPT !.users = DictPop(session.users, user_id)]
    ELSE session

get_state(session) ==
    [session_id |-> session.id,
     document_id |-> session.document.id,
     content |-> session.document.content,
     version |-> session.document.version,
     users |-> {[id |-> session.users[u].id,
                 username |-> session.users[u].username,
                 cursor |-> session.users[u].cursor_position]
                : u \in DOMAIN session.users}]

\* The loop of process_operation over self.pending_operations.
RECURSIVE TransformAgainst(_, _)
TransformAgainst(pending, op) ==
    IF pending = <<>> THEN op
    ELSE TransformAgainst(Tail(pending), transform(Head(pending), op))

\* A variant that keeps every applied operation in pending_operations.
process_operation_buffers(session, operation) ==
    LET transformed_op == TransformAgainst(session.pending_operations, operation)
        applied == apply_operation(session.document, transformed_op)
    IN  IF applied.ok
        THEN [session |-> [session EXCEPT
                             !.document = applied.document,
                             !.pending_operations =
                                 Append(session.pending_operations, transformed_op)],
              result |-> [success |-> TRUE,
                          operation |-> transformed_op,
                          document_version |-> applied.document.version,
                          content |-> applied.document.content]]
        ELSE [session |-> [session EXCEPT !.document = applied.document],
              result |-> [success |-> FALSE,
                          error |-> "Failed to apply operation"]]

\* A variant that transforms the operation against the whole log.
process_operation_transforms_against_log(session, operation) ==
    LET transformed_op == TransformAgainst(session.document.operations_history,
                                           operation)
        applied == apply_operation(session.document, transformed_op)
    IN  IF applied.ok
        THEN [session |-> [session EXCEPT !.document = applied.document],
              result |-> [success |-> TRUE,
                          operation |-> transformed_op,
                          document_version |-> applied.document.version,
                          content |-> applied.document.content]]
        ELSE [session |-> [session EXCEPT !.document = applied.document],
              result |-> [success |-> FALSE,
                          error |-> "Failed to apply operation"]]

\* A variant that reports the version read before the operation was applied.
process_operation_stale_version(session, operation) ==
    LET transformed_op == TransformAgainst(session.pending_operations, operation)
        applied == apply_operation(session.document, transformed_op)
    IN  IF applied.ok
        THEN [session |-> [session EXCEPT !.document = applied.document],
              result |-> [success |-> TRUE,
                          operation |-> transformed_op,
                          document_version |-> session.document.version,
                          content |-> applied.document.content]]
        ELSE [session |-> [session EXCEPT !.document = applied.document],
              result |-> [success |-> FALSE,
                          error |-> "Failed to apply operation"]]

\* CollaborativeSession.process_operation: the session after the call and
\* the dict returned.
process_operation(session, operation) ==
    LET transformed_op == TransformAgainst(session.pending_operations, operation)
        applied == apply_operation(session.document, transformed_op)
    IN  IF applied.ok
        THEN [session |-> [session EXCEPT !.document = applied.document],
              result |-> [success |-> TRUE,
                          operation |-> transformed_op,
                          document_version |-> applied.document.version,
                          content |-> applied.document.content]]
        ELSE [session |-> [session EXCEPT !.document = applied.document],
              result |-> [success |-> FALSE,
                          error |-> "Failed to apply operation"]]

(***************************************************************************)
(* CollabEditorService: one action per method                              *)
(***************************************************************************)
None == [returned |-> "None"]
SessionNotFound == [success |-> FALSE, error |-> "Session not found"]
IsFailure(r) == "success" \in DOMAIN r /\ ~r.success
IsApplied(r) == "operation" \in DOMAIN r /\ r.success

ServiceInit ==
    /\ sessions = <<>>
    /\ call = None
    /\ result = None

\* A variant that builds a new session on every call.
CreateSession_overwrites(session_id, document_id) ==
    /\ sessions' = DictSet(sessions, session_id,
                           CollaborativeSession(session_id, document_id))
    /\ call' = [method |-> "create_session", session_id |-> session_id,
                document_id |-> document_id]
    /\ result' = [returned |-> "session", session_id |-> session_id]
    /\ UNCHANGED <<otVars, tasks, trainVars>>

CreateSession(session_id, document_id) ==
    /\ sessions' = IF session_id \notin DOMAIN sessions
                   THEN DictSet(sessions, session_id,
                                CollaborativeSession(session_id, document_id))
                   ELSE sessions
    /\ call' = [method |-> "create_session", session_id |-> session_id,
                document_id |-> document_id]
    /\ result' = [returned |-> "session", session_id |-> session_id]
    /\ UNCHANGED <<otVars, tasks, trainVars>>

\* A variant that registers a session for an id it does not know.
GetSession_defaults(session_id) ==
    /\ call' = [method |-> "get_session", session_id |-> session_id]
    /\ sessions' = IF session_id \in DOMAIN sessions
                   THEN sessions
                   ELSE DictSet(sessions, session_id,
                                CollaborativeSession(session_id, session_id))
    /\ result' = [returned |-> "session", session_id |-> session_id]
    /\ UNCHANGED <<otVars, tasks, trainVars>>

\* get_session: self.sessions.get(session_id)
GetSession(session_id) ==
    /\ call' = [method |-> "get_session", session_id |-> session_id]
    /\ result' = IF session_id \in DOMAIN sessions
                 THEN [returned |-> "session", session_id |-> session_id]
                 ELSE None
    /\ UNCHANGED <<sessions, otVars, tasks, trainVars>>

\* get_session_state of the gateway: get_session, then 404 or
\* session.get_state().
GetState(session_id) ==
    /\ call' = [method |-> "get_state", session_id |-> session_id]
    /\ result' = IF session_id \in DOMAIN sessions
                 THEN get_state(sessions[session_id])
                 ELSE [status_code |-> 404, detail |-> "Session not found"]
    /\ UNCHANGED <<sessions, otVars, tasks, trainVars>>

\* A variant in which the users dict is one object shared by all sessions.
JoinSession_shared_users(session_id, user_id, username) ==
    /\ call' = [method |-> "join_session", session_id |-> session_id,
                user_id |-> user_id, username |-> username]
    /\ IF session_id \notin DOMAIN sessions
       THEN /\ result' = SessionNotFound
            /\ UNCHANGED sessions
       ELSE LET joined == add_user(sessions[session_id], User(user_id, username))
            IN  /\ sessions' = [sid \in DOMAIN sessions |->
                                  add_user(sessions[sid], User(user_id, username))]
                /\ result' = [success |-> TRUE, session_state |-> get_state(joined)]
    /\ UNCHANGED <<otVars, tasks, trainVars>>

JoinSession(session_id, user_id, username) ==
    /\ call' = [method |-> "join_session", session_id |-> session_id,
                user_id |-> user_id, username |-> username]
    /\ IF session_id \notin DOMAIN sessions
       THEN /\ result' = SessionNotFound
            /\ UNCHANGED sessions
       ELSE LET joined == add_user(sessions[session_id], User(user_id, username))
            IN  /\ sessions' = [sessions EXCEPT ![session_id] = joined]
                /\ result' = [success |-> TRUE, session_state |-> get_state(joined)]
    /\ UNCHANGED <<otVars, tasks, trainVars>>

\* A variant that discards a session when its last user leaves.
RemoveUser_evicts(session_id, user_id) ==
    /\ session_id \in DOMAIN sessions
    /\ call' = [method |-> "remove_user", session_id |-> session_id,
                user_id |-> user_id]
    /\ sessions' = IF DOMAIN sessions[session_id].users \subseteq {user_id}
                   THEN DictPop(sessions, session_id)
                   ELSE [sessions EXCEPT
                           ![session_id] = remove_user(sessions[session_id], user_id)]
    /\ result' = None
    /\ UNCHANGED <<otVars, tasks, trainVars>>

RemoveUser(session_id, user_id) ==
    /\ session_id \in DOMAIN sessions
    /\ call' = [method |-> "remove_user", session_id |-> session_id,
                user_id |-> user_id]
    /\ sessions' = [sessions EXCEPT
                       ![session_id] = remove_user(sessions[session_id], user_id)]
    /\ result' = None
    /\ UNCHANGED <<otVars, tasks, trainVars>>

HandleOperation(session_id, operation) ==
    /\ call' = [method |-> "handle_operation", session_id |-> session_id,
                operation |-> operation]
    /\ IF session_id \notin DOMAIN sessions
       THEN /\ result' = SessionNotFound
            /\ UNCHANGED sessions
       ELSE LET done == process_operation(sessions[session_id], operation)
            IN  /\ sessions' = [sessions EXCEPT ![session_id] = done.session]
                /\ result' = done.result
    /\ UNCHANGED <<otVars, tasks, trainVars>>

(***************************************************************************)
(* The service as its callers drive it                                     *)
(***************************************************************************)
\* The operations a client can send while the document is at version v: the
\* base version is one the client can have observed.
OpsBy(authors, v) ==
    {Operation(t, p, c, u, b) :
        t \in Types, p \in Positions, c \in Payloads, u \in authors, b \in 0..v}
Ops(v) == OpsBy(UserIds, v)
MalformedOps(v) == {MalformedOperation(t, XX, "user1", v) : t \in Types}
ProbeOps == {Operation("insert", 0, XX, "user1", 0)}
\* Operations of a kind the editor does not know, or at a negative position.
InvalidOps(v) ==
    {Operation("replace", 0, XX, "user1", v),
     Operation("insert", -1, XX, "user1", v),
     Operation("delete", -1, XX, "user1", v)}

OTIdle ==
    /\ otA = None
    /\ otB = None
    /\ otBase = <<>>
    /\ replica = <<>>

NoTasks == tasks = <<>>

\* LLMTrainingService as constructed, and no call of start_training.
TrainingInit ==
    /\ jobs = <<>>
    /\ active_jobs = <<>>
    /\ completed_jobs = <<>>
NoStarts == starts = <<>>

Init == ServiceInit /\ OTIdle /\ NoTasks /\ TrainingInit /\ NoStarts

\* Spec explores the submissions of one author; the author of an operation
\* is stored with it and never read.
Submit(bound) ==
    \/ \E sid \in DOMAIN sessions :
          /\ sessions[sid].document.version < bound
          /\ \E op \in OpsBy({"user1"}, sessions[sid].document.version) :
                HandleOperation(sid, op)
    \/ \E sid \in DOMAIN sessions :
          \E op \in MalformedOps(sessions[sid].document.version) :
                HandleOperation(sid, op)
    \/ \E sid \in UnknownSessionIds, op \in ProbeOps : HandleOperation(sid, op)

\* Spec explores the joining and leaving of one user.
Members == {"user1"}

Next ==
    \/ \E sid \in SessionIds, did \in DocumentIds : CreateSession(sid, did)
    \/ \E sid \in SessionIds \cup UnknownSessionIds, uid \in Members :
          JoinSession(sid, uid, Username(uid))
    \/ \E sid \in SessionIds, uid \in Members : RemoveUser(sid, uid)
    \/ Submit(MaxVersion)

Spec == Init /\ [][Next]_vars

\* The same service driven one submission deeper, by the operations of two
\* authors and by operations of an unknown kind or at a negative position.
NextScenario ==
    \/ \E sid \in SessionIds, did \in DocumentIds : CreateSession(sid, did)
    \/ \E sid \in DOMAIN sessions :
          /\ sessions[sid].document.version < MaxDepth
          /\ \E op \in Ops(sessions[sid].document.version) :
                HandleOperation(sid, op)
    \/ \E sid \in DOMAIN sessions :
          /\ sessions[sid].document.version < MaxDepth
          /\ \E op \in InvalidOps(sessions[sid].document.version) :
                HandleOperation(sid, op)

SpecScenario == Init /\ [][NextScenario]_vars

(***************************************************************************)
(* The registry of sessions: two sessions, two documents, two users, and   *)
(* one session id that is never created.                                   *)
(***************************************************************************)
MaxRegistryVersion == 1
RegistryIds == {"s1", "s2"}
NeverCreated == {"s3"}
RegistryDocuments == {"d1", "d2"}
RegistryOps(v) == {Operation("insert", 0, XX, uid, v) : uid \in UserIds}

NextRegistry ==
    \/ \E sid \in RegistryIds, did \in RegistryDocuments : CreateSession(sid, did)
    \/ \E sid \in RegistryIds \cup NeverCreated : GetSession(sid)
    \/ \E sid \in RegistryIds \cup NeverCreated, uid \in UserIds :
          JoinSession(sid, uid, Username(uid))
    \/ \E sid \in RegistryIds, uid \in UserIds : RemoveUser(sid, uid)
    \/ \E sid \in DOMAIN sessions :
          /\ sessions[sid].document.version < MaxRegistryVersion
          /\ \E op \in RegistryOps(sessions[sid].document.version) :
                HandleOperation(sid, op)
    \/ \E sid \in (RegistryIds \cup NeverCreated) \ DOMAIN sessions, op \in ProbeOps :
          HandleOperation(sid, op)

SpecRegistry == Init /\ [][NextRegistry]_vars

(***************************************************************************)
(* The membership of one session: two user ids that join under either      *)
(* username, leave, and read the state, while the document gets content.   *)
(***************************************************************************)
Usernames == {"Alice", "Bob"}

NextMembership ==
    \/ \E sid \in SessionIds, did \in DocumentIds : CreateSession(sid, did)
    \/ \E sid \in SessionIds \cup UnknownSessionIds, uid \in UserIds,
          username \in Usernames : JoinSession(sid, uid, username)
    \/ \E sid \in SessionIds, uid \in UserIds : RemoveUser(sid, uid)
    \/ \E sid \in SessionIds \cup UnknownSessionIds : GetState(sid)
    \/ \E sid \in DOMAIN sessions :
          /\ sessions[sid].document.version < MaxRegistryVersion
          /\ \E op \in RegistryOps(sessions[sid].document.version) :
                HandleOperation(sid, op)

SpecMembership == Init /\ [][NextMembership]_vars

(***************************************************************************)
(* LLMTrainingService.  A TrainingJob is an object: jobs[i] is the i-th    *)
(* object built, and active_jobs and completed_jobs hold indices into      *)
(* jobs.  A call of start_training is a coroutine that suspends once per   *)
(* epoch, at asyncio.sleep; what lies between two suspensions is one step. *)
(***************************************************************************)
MaxJobs == 2
num_epochs == 3
JobIds == {"j1", "j2"}
Starts == {"t1", "t2"}

\* TrainingJob.__init__; progress is the pair <<epochs done, epochs>>.
TrainingJob(job_id) ==
    [id |-> job_id, num_epochs |-> num_epochs, status |-> "pending",
     progress |-> <<0, 1>>, metrics |-> <<>>]

\* The metrics of epoch + 1, the loss in tenths.
Metrics(epoch) ==
    [epoch |-> epoch + 1, loss |-> 25 - epoch * 3, perplexity |-> 50 - epoch * 5]

NotStarted == [pc |-> "idle", job_id |-> "", job |-> 0, epoch |-> 0, result |-> None]
JobNotFound == [success |-> FALSE, error |-> "Job not found"]

InitTraining ==
    /\ ServiceInit
    /\ OTIdle
    /\ NoTasks
    /\ TrainingInit
    /\ starts = [t \in Starts |-> NotStarted]

\* create_job: build a TrainingJob and put it in active_jobs under its id.
CreateJob(job_id) ==
    /\ Len(jobs) < MaxJobs
    /\ jobs' = Append(jobs, TrainingJob(job_id))
    /\ active_jobs' = DictSet(active_jobs, job_id, Len(jobs) + 1)
    /\ UNCHANGED <<completed_jobs, starts, sessions, call, result, otVars, tasks>>

\* The end of start_training: status, progress, append to completed_jobs,
\* then del self.active_jobs[job_id], which raises KeyError if the id is not
\* there any more.
Complete(t, done) ==
    LET job == starts[t].job
        job_id == starts[t].job_id
        finished == [done EXCEPT ![job].status = "completed",
                                 ![job].progress = <<1, 1>>]
    IN  /\ jobs' = finished
        /\ completed_jobs' = Append(completed_jobs, job)
        /\ IF job_id \in DOMAIN active_jobs
           THEN /\ active_jobs' = DictPop(active_jobs, job_id)
                /\ starts' = [starts EXCEPT
                      ![t].pc = "returned",
                      ![t].result = [success |-> TRUE, job_id |-> job_id,
                                     final_metrics |-> finished[job].metrics]]
           ELSE /\ UNCHANGED active_jobs
                /\ starts' = [starts EXCEPT ![t].pc = "raised",
                                            ![t].result = [raised |-> "KeyError"]]

\* start_training up to its first asyncio.sleep.
StartTraining(t, job_id) ==
    /\ starts[t].pc = "idle"
    /\ IF job_id \notin DOMAIN active_jobs
       THEN /\ starts' = [starts EXCEPT ![t].pc = "returned",
                                        ![t].job_id = job_id,
                                        ![t].result = JobNotFound]
            /\ UNCHANGED <<jobs, active_jobs, completed_jobs>>
       ELSE LET job == active_jobs[job_id] IN
            /\ jobs' = [jobs EXCEPT ![job].status = "running"]
            /\ starts' = [starts EXCEPT ![t].pc = "sleep",
                                        ![t].job_id = job_id,
                                        ![t].job = job,
                                        ![t].epoch = 0]
            /\ UNCHANGED <<active_jobs, completed_jobs>>
    /\ UNCHANGED <<sessions, call, result, otVars, tasks>>

\* start_training from the return of asyncio.sleep to the next one, or to
\* the end of the call after the last epoch.
Epoch(t) ==
    /\ starts[t].pc = "sleep"
    /\ LET job == starts[t].job
           epoch == starts[t].epoch
           updated == [jobs EXCEPT
                         ![job].progress = <<epoch + 1, jobs[job].num_epochs>>,
                         ![job].metrics = Metrics(epoch)]
       IN  IF epoch + 1 < jobs[job].num_epochs
           THEN /\ jobs' = updated
                /\ starts' = [starts EXCEPT ![t].epoch = epoch + 1]
                /\ UNCHANGED <<active_jobs, completed_jobs>>
           ELSE Complete(t, updated)
    /\ UNCHANGED <<sessions, call, result, otVars, tasks>>

NextTraining ==
    \/ \E job_id \in JobIds : CreateJob(job_id)
    \/ \E t \in Starts, job_id \in JobIds : StartTraining(t, job_id)
    \/ \E t \in Starts : Epoch(t)

SpecTraining == InitTraining /\ [][NextTraining]_vars

(***************************************************************************)
(* The transform harness: two replicas of one document, each applying the  *)
(* two concurrent operations in its own order.  Both operations are valid  *)
(* against the base content, and each call of transform gets its own       *)
(* copies of them.                                                         *)
(***************************************************************************)
Alphabet == <<"a", "b", "c", "d", "e">>
BaseContents == {SubSeq(Alphabet, 1, n) : n \in 0..MaxLen}
Replicas == {"left", "right"}

\* The operations a client holding content c can generate: an insert at any
\* position of c, or a delete of a non-empty range of c carrying the text
\* it removes.
ValidOps(c, user_id, payloads) ==
    {Operation("insert", p, s, user_id, 0) : p \in 0..Len(c), s \in payloads}
    \cup
    UNION {{Operation("delete", p, SubSeq(c, p + 1, p + n), user_id, 0) :
                n \in 1..(Len(c) - p)} : p \in 0..Len(c)}

First(r) == IF r = "left" THEN otA ELSE otB
Second(r) == IF r = "left" THEN otB ELSE otA

InitOT ==
    /\ ServiceInit
    /\ otBase \in BaseContents
    /\ otA \in ValidOps(otBase, "user1", {<<"x">>, <<"x", "x">>})
    /\ otB \in ValidOps(otBase, "user2", {<<"y">>, <<"y", "y">>})
    /\ NoTasks
    /\ TrainingInit
    /\ NoStarts
    /\ replica = [r \in Replicas |->
                    [pc |-> "start", document |-> Document("d1", otBase), op |-> None,
                     op1 |-> None, op2 |-> None, returned |-> "None"]]

ApplyFirst(r) ==
    /\ replica[r].pc = "start"
    /\ replica' = [replica EXCEPT
          ![r].document = apply_operation(replica[r].document, First(r)).document,
          ![r].pc = "first"]
    /\ UNCHANGED <<sessions, call, result, otA, otB, otBase, tasks, trainVars>>

\* The replica passes its own two Operation objects to transform; op1 and op2
\* are those objects after the call, op is the object the call returned.
Transform(r) ==
    /\ replica[r].pc = "first"
    /\ LET c == transform_call(First(r), Second(r)) IN
       replica' = [replica EXCEPT
          ![r].op1 = c.op1,
          ![r].op2 = c.op2,
          ![r].returned = c.returned,
          ![r].op = c[c.returned],
          ![r].pc = "transformed"]
    /\ UNCHANGED <<sessions, call, result, otA, otB, otBase, tasks, trainVars>>

ApplySecond(r) ==
    /\ replica[r].pc = "transformed"
    /\ replica' = [replica EXCEPT
          ![r].document = apply_operation(replica[r].document, replica[r].op).document,
          ![r].pc = "done"]
    /\ UNCHANGED <<sessions, call, result, otA, otB, otBase, tasks, trainVars>>

NextOT ==
    \/ \E r \in Replicas : ApplyFirst(r)
    \/ \E r \in Replicas : Transform(r)
    \/ \E r \in Replicas : ApplySecond(r)

SpecOT == InitOT /\ [][NextOT]_vars

(***************************************************************************)
(* The websocket connections of the gateway.  Every connection is a        *)
(* coroutine on the one event loop: it runs from one suspending await to   *)
(* the next, and only while every other coroutine is suspended.  A         *)
(* position names the statement a connection is at.                        *)
(***************************************************************************)
Tasks == {"ws1", "ws2"}
TaskSession(t) == "s1"
TaskUser(t) == IF t = "ws1" THEN "user1" ELSE "user2"

\* A variant in which process_operation awaits between applying the
\* operation and building its result.
Suspending_after_apply == {"receive_json", "send_json", "result"}

\* The awaits at which a connection gives up the event loop: receive_json and
\* send_json.  The awaits of handle_operation and process_operation are of
\* coroutines that contain no await, so they run through.
Suspending == {"receive_json", "send_json"}

\* A connection whose handler has ended (by the TypeError of send_json or by
\* WebSocketDisconnect) no longer runs.
Suspended(t) == tasks[t].pc \in Suspending \cup {"closed", "disconnected"}
LoopFree(t) == \A u \in Tasks \ {t} : Suspended(u)

\* The frames a client can send: data["type"], data["position"],
\* data["content"], data["version"].
TaskOps(t) ==
    {Operation(type, 0, XX, TaskUser(t), 0) : type \in Types}
    \cup {MalformedOperation("insert", XX, TaskUser(t), 0)}

\* The field sent holds the frames sent to the client on this connection.
Waiting == [pc |-> "receive_json", operation |-> None, session |-> None,
            transformed_op |-> None, success |-> FALSE, result |-> None,
            sent |-> {}]

InitTasks ==
    /\ ServiceInit
    /\ OTIdle
    /\ tasks = [t \in Tasks |-> Waiting]
    /\ TrainingInit
    /\ NoStarts

\* websocket_collab: receive_json returns a frame, the Operation is built and
\* handle_operation is entered.
WsReceive(t, operation) ==
    /\ tasks[t].pc = "receive_json"
    /\ LoopFree(t)
    /\ tasks' = [tasks EXCEPT ![t].pc = "get_session",
                              ![t].operation = operation]
    /\ UNCHANGED <<sessions, call, result, otVars, trainVars>>

\* handle_operation: look the session up; return the error dict if absent.
\* The field session keeps the session as this call found it.
WsGetSession(t) ==
    /\ tasks[t].pc = "get_session"
    /\ LoopFree(t)
    /\ tasks' = IF TaskSession(t) \notin DOMAIN sessions
                THEN [tasks EXCEPT ![t].pc = "send_json",
                                   ![t].result = SessionNotFound]
                ELSE [tasks EXCEPT ![t].pc = "transform",
                                   ![t].session = sessions[TaskSession(t)]]
    /\ UNCHANGED <<sessions, call, result, otVars, trainVars>>

\* process_operation: the loop over pending_operations.
WsTransform(t) ==
    /\ tasks[t].pc = "transform"
    /\ LoopFree(t)
    /\ tasks' = [tasks EXCEPT
          ![t].pc = "apply",
          ![t].transformed_op =
              TransformAgainst(sessions[TaskSession(t)].pending_operations,
                               tasks[t].operation)]
    /\ UNCHANGED <<sessions, call, result, otVars, trainVars>>

\* process_operation: success = self.document.apply_operation(transformed_op)
WsApply(t) ==
    /\ tasks[t].pc = "apply"
    /\ LoopFree(t)
    /\ LET sid == TaskSession(t)
           applied == apply_operation(sessions[sid].document, tasks[t].transformed_op)
       IN  /\ sessions' = [sessions EXCEPT ![sid].document = applied.document]
           /\ tasks' = [tasks EXCEPT ![t].pc = "result",
                                     ![t].success = applied.ok]
    /\ UNCHANGED <<call, result, otVars, trainVars>>

\* process_operation: the dict returned, read from the document as it is now.
WsResult(t) ==
    /\ tasks[t].pc = "result"
    /\ LoopFree(t)
    /\ LET document == sessions[TaskSession(t)].document IN
       tasks' = [tasks EXCEPT
          ![t].pc = "send_json",
          ![t].result =
              IF tasks[t].success
              THEN [success |-> TRUE,
                    operation |-> tasks[t].transformed_op,
                    document_version |-> document.version,
                    content |-> document.content]
              ELSE [success |-> FALSE, error |-> "Failed to apply operation"]]
    /\ UNCHANGED <<sessions, call, result, otVars, trainVars>>

\* websocket_collab: send_json(result).  A result that holds an Operation
\* object cannot be encoded as JSON: the TypeError is not caught and ends the
\* connection.  Otherwise the loop goes back to receive_json.
WsSend(t) ==
    /\ tasks[t].pc = "send_json"
    /\ LoopFree(t)
    /\ tasks' = [tasks EXCEPT
          ![t] = IF IsApplied(tasks[t].result)
                 THEN [tasks[t] EXCEPT !.pc = "closed"]
                 ELSE [Waiting EXCEPT
                         !.sent = tasks[t].sent \cup {tasks[t].result}]]
    /\ UNCHANGED <<sessions, call, result, otVars, trainVars>>

\* websocket_collab: receive_json raises WebSocketDisconnect; the handler
\* prints a line and ends.
WsDisconnect(t) ==
    /\ tasks[t].pc = "receive_json"
    /\ LoopFree(t)
    /\ tasks' = [tasks EXCEPT ![t].pc = "disconnected"]
    /\ UNCHANGED <<sessions, call, result, otVars, trainVars>>

\* create_collab_session runs between the connections' awaits: create_session,
\* then join_session, whose result it returns.
WsCreateSession(session_id, document_id, user_id, username) ==
    /\ \A t \in Tasks : Suspended(t)
    /\ LET created == IF session_id \notin DOMAIN sessions
                      THEN DictSet(sessions, session_id,
                                   CollaborativeSession(session_id, document_id))
                      ELSE sessions
           joined == add_user(created[session_id], User(user_id, username))
       IN  /\ sessions' = [created EXCEPT ![session_id] = joined]
           /\ result' = [success |-> TRUE, session_state |-> get_state(joined)]
    /\ call' = [method |-> "join_session", session_id |-> session_id,
                user_id |-> user_id, username |-> username]
    /\ UNCHANGED <<otVars, tasks, trainVars>>

NextTasks ==
    \/ \E sid \in SessionIds, did \in DocumentIds, uid \in UserIds :
          WsCreateSession(sid, did, uid, Username(uid))
    \/ \E t \in Tasks : \E op \in TaskOps(t) : WsReceive(t, op)
    \/ \E t \in Tasks : WsGetSession(t)
    \/ \E t \in Tasks : WsTransform(t)
    \/ \E t \in Tasks : WsApply(t)
    \/ \E t \in Tasks : WsResult(t)
    \/ \E t \in Tasks : WsSend(t)
    \/ \E t \in Tasks : WsDisconnect(t)

SpecTasks == InitTasks /\ [][NextTasks]_vars

\* The event loop keeps running a coroutine that is ready: the statements of
\* handle_operation and process_operation follow one another, and a send_json
\* completes.  When a client sends a frame or disconnects is up to the client.
TasksFairness ==
    /\ WF_vars(\E t \in Tasks : WsGetSession(t))
    /\ WF_vars(\E t \in Tasks : WsTransform(t))
    /\ WF_vars(\E t \in Tasks : WsApply(t))
    /\ WF_vars(\E t \in Tasks : WsResult(t))
    /\ WF_vars(\E t \in Tasks : WsSend(t))

SpecTasksFair == SpecTasks /\ TasksFairness


(***************************************************************************)
(* Vocabulary of the properties                                            *)
(***************************************************************************)
Last(seq) == seq[Len(seq)]

\* A fresh document of a session on which the log entries are applied in order.
RECURSIVE Replayed(_, _)
Replayed(doc_id, log) ==
    IF log = <<>> THEN Document(doc_id, <<>>)
    ELSE apply_operation(Replayed(doc_id, SubSeq(log, 1, Len(log) - 1)),
                         Last(log)).document

\* The document as the replay of its first v log entries gives it.
DocumentAt(doc, v) == Replayed(doc.id, SubSeq(doc.operations_history, 1, v))
ContentAt(doc, v) == DocumentAt(doc, v).content

\* The content a session holds after process_operation on each of ops in turn.
RECURSIVE ContentAfter(_, _)
ContentAfter(session, ops) ==
    IF ops = <<>> THEN session.document.content
    ELSE ContentAfter(process_operation(session, Head(ops)).session, Tail(ops))

\* content with the range [p, p + n) removed.
RemoveRange(content, p, n) ==
    SubSeq(content, 1, p) \o SubSeq(content, p + n + 1, Len(content))


\* The step is a call of handle_operation on the existing session sid.
Submitted(sid) ==
    /\ sid \in DOMAIN sessions
    /\ call'.method = "handle_operation"
    /\ call'.session_id = sid
    /\ HandleOperation(sid, call'.operation)

BothDone == DOMAIN replica = Replicas /\ \A r \in Replicas : replica[r].pc = "done"

(***************************************************************************)
(* C1. Convergence of transform: once both replicas have applied their two *)
(* operations (a then transform(a, b); b then transform(b, a)), they hold  *)
(* the same content.                                                       *)
(***************************************************************************)
C1_Convergence ==
    BothDone => replica["left"].document.content = replica["right"].document.content

(***************************************************************************)
(* C2. Sequencing by replay: the operation a submission with base version  *)
(* v0 gets applied as, on a document at version vN >= v0, is the submitted *)
(* operation transformed in order against log[v0], ..., log[vN-1].         *)
(***************************************************************************)
C2_SequencingByReplay ==
    [][\A sid \in DOMAIN sessions :
         LET doc == sessions[sid].document
             op == call'.operation
         IN  (Submitted(sid) /\ op.position_is_int /\ IsApplied(result'))
             => Last(sessions'[sid].document.operations_history)
                  = TransformAgainst(
                       SubSeq(doc.operations_history, op.version + 1, doc.version),
                       op)]_vars

(***************************************************************************)
(* C3. Tie-break determinism: when insert a is committed and insert b, at  *)
(* the same position, with the same base version and another author, is    *)
(* submitted next, the content is what submitting b first and a second     *)
(* gives.                                                                  *)
(***************************************************************************)
C3_TieBreakDeterminism ==
    [][\A sid \in DOMAIN sessions :
         LET doc == sessions[sid].document
             n == doc.version
         IN  (n >= 1 /\ Submitted(sid)) =>
             LET a == doc.operations_history[n]
                 b == call'.operation
                 before == [sessions[sid] EXCEPT !.document = DocumentAt(doc, n - 1)]
             IN  (/\ a.type = "insert" /\ b.type = "insert"
                  /\ b.position_is_int
                  /\ a.position = b.position
                  /\ a.version = n - 1 /\ b.version = n - 1
                  /\ a.user_id # b.user_id)
                 => sessions'[sid].document.content
                      = ContentAfter(before, <<b, a>>)]_vars

(***************************************************************************)
(* C4. Overlapping deletes: when a delete of [p, p+n) is committed and a   *)
(* delete of the same range with the same base version is submitted next,  *)
(* the second submission succeeds, the version advances by 1 and the       *)
(* content is the original content with the range removed once.            *)
(***************************************************************************)
C4_OverlappingDeletes ==
    [][\A sid \in DOMAIN sessions :
         LET doc == sessions[sid].document
             n == doc.version
         IN  (n >= 1 /\ Submitted(sid)) =>
             LET a == doc.operations_history[n]
                 b == call'.operation
                 original == ContentAt(doc, n - 1)
             IN  (/\ a.type = "delete" /\ b.type = "delete"
                  /\ b.position_is_int
                  /\ a.position = b.position
                  /\ Len(a.content) = Len(b.content)
                  /\ a.position + Len(a.content) <= Len(original)
                  /\ a.version = n - 1 /\ b.version = n - 1
                  /\ a.user_id # b.user_id)
                 => /\ IsApplied(result')
                    /\ sessions'[sid].document.version = n + 1
                    /\ sessions'[sid].document.content
                         = RemoveRange(original, a.position, Len(a.content))]_vars

(***************************************************************************)
(* C5. With "hello" at version 1, user A's Delete(0, len 5, base 1) and    *)
(* user B's Insert(2, "XX", base 1): once one is committed and the other   *)
(* is submitted, the content is "XX", in either order.                     *)
(***************************************************************************)
DeleteA == Operation("delete", 0, Hello, "user1", 1)
InsertB == Operation("insert", 2, XX, "user2", 1)

C5_DeleteAndInsertInside ==
    [][\A sid \in DOMAIN sessions :
         LET doc == sessions[sid].document
         IN  (/\ doc.version = 2
              /\ Submitted(sid)
              /\ ContentAt(doc, 1) = Hello
              /\ <<doc.operations_history[2], call'.operation>>
                    \in {<<DeleteA, InsertB>>, <<InsertB, DeleteA>>})
             => sessions'[sid].document.content = XX]_vars

(***************************************************************************)
(* C6. Monotonic versioning: a session's document starts at version 0; a   *)
(* step that is a successful submission to the session raises its version  *)
(* by exactly 1, and every other step leaves the version as it was.        *)
(***************************************************************************)
C6_MonotonicVersioning ==
    [][/\ DOMAIN sessions \subseteq DOMAIN sessions'
       /\ \A sid \in DOMAIN sessions' :
            IF sid \notin DOMAIN sessions
            THEN sessions'[sid].document.version = 0
            ELSE sessions'[sid].document.version
                    = IF Submitted(sid) /\ IsApplied(result')
                      THEN sessions[sid].document.version + 1
                      ELSE sessions[sid].document.version]_vars

\* Two submissions were applied, and a later one was refused.
C6_Witness ==
    \E sid \in DOMAIN sessions :
        /\ sessions[sid].document.version = 2
        /\ call.method = "handle_operation"
        /\ call.session_id = sid
        /\ IsFailure(result)

(***************************************************************************)
(* C7. Replay determinism: after every step, replaying the whole log from  *)
(* empty content gives the document's content, and the step has kept the   *)
(* log entries the document had before it, so that for every version v     *)
(* reached earlier the replay of log[0..v) is still the replay that gave   *)
(* the content at v.                                                       *)
(***************************************************************************)
C7_ReplayDeterminism ==
    [][\A sid \in DOMAIN sessions' :
         LET after == sessions'[sid].document
         IN  /\ Replayed(after.id, after.operations_history).content = after.content
             /\ sid \in DOMAIN sessions =>
                  LET old == sessions[sid].document.operations_history
                  IN  SubSeq(after.operations_history, 1, Len(old)) = old]_vars

\* The log holds an insert and a delete that removed part of it.
C7_Witness ==
    \E sid \in DOMAIN sessions :
        LET doc == sessions[sid].document
        IN  /\ doc.version = 2
            /\ doc.operations_history[1].type = "insert"
            /\ doc.operations_history[2].type = "delete"
            /\ doc.content # <<>>
            /\ doc.content # doc.operations_history[1].content

(***************************************************************************)
(* C8. The log is append-only and indexed by version: after every step the *)
(* log is as long as the version; a step never changes or removes an entry *)
(* the log already had; and when a step adds an entry, it adds one, at the *)
(* end, and that entry is the operation whose application to the document  *)
(* before the step gives the document after it.                            *)
(***************************************************************************)
C8_LogAppendOnly ==
    [][\A sid \in DOMAIN sessions' :
         LET after == sessions'[sid].document
             log == after.operations_history
         IN  /\ Len(log) = after.version
             /\ sid \in DOMAIN sessions =>
                  LET doc == sessions[sid].document
                      old == doc.operations_history
                  IN  /\ Len(old) <= Len(log)
                      /\ SubSeq(log, 1, Len(old)) = old
                      /\ log # old =>
                           /\ Len(log) = Len(old) + 1
                           /\ apply_operation(doc, Last(log)).document = after]_vars

\* Two different operations are in the log, and a user has joined since.
C8_Witness ==
    \E sid \in DOMAIN sessions :
        LET doc == sessions[sid].document
        IN  /\ doc.version = 2
            /\ doc.operations_history[1] # doc.operations_history[2]
            /\ call.method = "join_session"
            /\ call.user_id \in DOMAIN sessions[sid].users

(***************************************************************************)
(* C9. OutOfRange: a submission whose position is beyond the content's     *)
(* length (for a delete, whose position + len(payload) is) reports failure *)
(* and leaves the document as it was.                                      *)
(***************************************************************************)
IsOutOfRange(content, op) ==
    /\ op.position_is_int
    /\ \/ op.position > Len(content)
       \/ op.type = "delete" /\ op.position + Len(op.content) > Len(content)

C9_OutOfRange ==
    [][\A sid \in DOMAIN sessions :
         (Submitted(sid) /\ IsOutOfRange(sessions[sid].document.content, call'.operation))
         => /\ IsFailure(result')
            /\ sessions'[sid].document = sessions[sid].document]_vars

(***************************************************************************)
(* C10. Atomicity of failure: a step whose result reports failure leaves   *)
(* every document (content, version and log) as it was, and after it each  *)
(* session still applies every well-typed operation based on its current   *)
(* version.                                                                *)
(***************************************************************************)
FreshOps(v) ==
    {Operation(t, p, c, "user1", v) : t \in Types, p \in Positions, c \in Payloads}

C10_AtomicFailure ==
    [][IsFailure(result') =>
         /\ DOMAIN sessions' = DOMAIN sessions
         /\ \A sid \in DOMAIN sessions :
               /\ sessions'[sid].document = sessions[sid].document
               /\ \A op \in FreshOps(sessions'[sid].document.version) :
                     process_operation(sessions'[sid], op).result.success]_vars

\* A submission to a document that already has content was refused.
C10_Witness ==
    \E sid \in DOMAIN sessions :
        /\ sessions[sid].document.content # <<>>
        /\ call.method = "handle_operation"
        /\ call.session_id = sid
        /\ IsFailure(result)

(***************************************************************************)
(* C11. InvalidOperation: a submission whose kind is neither insert nor    *)
(* delete, or whose position is negative, is refused: its result reports   *)
(* failure and the document (content, version, log) is as it was.          *)
(***************************************************************************)
IsInvalid(op) ==
    \/ op.type \notin {"insert", "delete"}
    \/ op.position_is_int /\ op.position < 0

C11_InvalidOperation ==
    [][\A sid \in DOMAIN sessions :
         (Submitted(sid) /\ IsInvalid(call'.operation))
         => /\ IsFailure(result')
            /\ sessions'[sid].document = sessions[sid].document]_vars

(***************************************************************************)
(* C12. Purity of transform: after transform(a, b) the two argument        *)
(* objects hold what they held before the call, and the object returned is *)
(* a new one, neither of the arguments.                                    *)
(***************************************************************************)
Transformed(r) == r \in DOMAIN replica /\ replica[r].pc \in {"transformed", "done"}

C12_TransformPurity ==
    \A r \in Replicas :
        Transformed(r)
        => /\ replica[r].op1 = First(r)
           /\ replica[r].op2 = Second(r)
           /\ replica[r].returned \notin {"op1", "op2"}

(***************************************************************************)
(* C13. Structural validity: for two valid operations against the same     *)
(* content, the transformed second operation has a position >= 0 and lies  *)
(* within the content the first operation produced (insert: position <=    *)
(* length; delete: position + length of payload <= length).                *)
(***************************************************************************)
InBounds(op, content) ==
    /\ op.position >= 0
    /\ op.type = "insert" => op.position <= Len(content)
    /\ op.type = "delete" => op.position + Len(op.content) <= Len(content)

C13_StructuralValidity ==
    \A r \in Replicas :
        (r \in DOMAIN replica /\ replica[r].pc = "transformed")
        => InBounds(replica[r].op, replica[r].document.content)

(***************************************************************************)
(* C14. Result of a successful submission: when a submission to a document *)
(* at version vN succeeds, the result carries version vN + 1 and an         *)
(* operation that is exactly the entry the log gained at index vN, and the *)
(* content and version it reports are those of the document right after    *)
(* the step.                                                               *)
(***************************************************************************)
C14_SubmissionResult ==
    [][\A sid \in DOMAIN sessions :
         (Submitted(sid) /\ IsApplied(result'))
         => LET vN == sessions[sid].document.version
                after == sessions'[sid].document
            IN  /\ result'.document_version = vN + 1
                /\ Len(after.operations_history) = vN + 1
                /\ after.operations_history[vN + 1] = result'.operation
                /\ SubSeq(after.operations_history, 1, vN)
                     = sessions[sid].document.operations_history
                /\ result'.document_version = after.version
                /\ result'.content = after.content]_vars

\* A submission to a document that already was at version 1 succeeded.
C14_Witness ==
    \E sid \in DOMAIN sessions :
        /\ call.method = "handle_operation"
        /\ call.session_id = sid
        /\ IsApplied(result)
        /\ result.document_version = 2
        /\ sessions[sid].document.content # <<>>

(***************************************************************************)
(* C15. Per-session critical section: the calls of handle_operation on one *)
(* session do not interleave.  At most one connection is between reading   *)
(* the session and returning its result, and the result a call returns is  *)
(* the one process_operation gives when run alone on the session the call  *)
(* found.                                                                  *)
(***************************************************************************)
InProcess(t) == tasks[t].pc \in {"transform", "apply", "result"}

C15_CriticalSection ==
    \A t \in DOMAIN tasks :
        /\ InProcess(t)
           => \A u \in DOMAIN tasks \ {t} :
                 ~(InProcess(u) /\ TaskSession(u) = TaskSession(t))
        /\ (tasks[t].pc \in {"send_json", "closed"} /\ tasks[t].session # None)
           => tasks[t].result
                = process_operation(tasks[t].session, tasks[t].operation).result

\* A connection returned the result of an operation applied on top of the
\* operation of the other connection.
C15_Witness ==
    \E t \in DOMAIN tasks :
        /\ tasks[t].pc = "send_json"
        /\ IsApplied(tasks[t].result)
        /\ tasks[t].result.document_version = 2
        /\ \E u \in DOMAIN tasks \ {t} : tasks[u].pc = "closed"

(***************************************************************************)
(* C16. Cross-session independence: a submission, a join or a leave on one *)
(* session leaves every other session (content, version, log and users)    *)
(* as it was.                                                              *)
(***************************************************************************)
Called(method) == "method" \in DOMAIN call' /\ call'.method = method
LastCall(method) == "method" \in DOMAIN call /\ call.method = method

C16_CrossSessionIndependence ==
    [][(Called("handle_operation") \/ Called("join_session") \/ Called("remove_user"))
       => /\ DOMAIN sessions' = DOMAIN sessions
          /\ \A sid \in DOMAIN sessions :
                call'.session_id # sid
                => /\ sessions'[sid].document = sessions[sid].document
                   /\ sessions'[sid].users = sessions[sid].users]_vars

\* A submission was applied in one session while another session has its own
\* content and a user.
C16_Witness ==
    /\ LastCall("handle_operation")
    /\ IsApplied(result)
    /\ \E sid \in DOMAIN sessions :
          /\ sid # call.session_id
          /\ sessions[sid].document.version > 0
          /\ sessions[sid].users # <<>>
          /\ sessions[sid].document.operations_history
               # sessions[call.session_id].document.operations_history

(***************************************************************************)
(* C17. create_session is idempotent by session id: the first call for an  *)
(* id registers a session with an empty document at version 0 and no       *)
(* users; a later call with that id, whatever the document id, returns the *)
(* same session and changes nothing.                                       *)
(***************************************************************************)
C17_GetOrCreate ==
    [][Called("create_session")
       => LET sid == call'.session_id IN
          /\ result' = [returned |-> "session", session_id |-> sid]
          /\ IF sid \in DOMAIN sessions
             THEN sessions' = sessions
             ELSE /\ DOMAIN sessions' = DOMAIN sessions \cup {sid}
                  /\ \A other \in DOMAIN sessions : sessions'[other] = sessions[other]
                  /\ sessions'[sid].id = sid
                  /\ sessions'[sid].document.id = call'.document_id
                  /\ sessions'[sid].document.content = <<>>
                  /\ sessions'[sid].document.version = 0
                  /\ sessions'[sid].document.operations_history = <<>>
                  /\ sessions'[sid].users = <<>>]_vars

\* create_session was called with another document id for a session that
\* already has content and a user.
C17_Witness ==
    /\ LastCall("create_session")
    /\ call.session_id \in DOMAIN sessions
    /\ sessions[call.session_id].document.id # call.document_id
    /\ sessions[call.session_id].document.version > 0
    /\ sessions[call.session_id].users # <<>>

(***************************************************************************)
(* C18. NotFound without state change: get_session, join_session and       *)
(* handle_operation on an id that was never created signal not-found       *)
(* (None, or success False with 'Session not found') and leave the         *)
(* registry and every session in it as they were.                          *)
(***************************************************************************)
C18_NotFound ==
    [][((Called("get_session") \/ Called("join_session") \/ Called("handle_operation"))
        /\ call'.session_id \notin DOMAIN sessions)
       => /\ sessions' = sessions
          /\ result' = IF call'.method = "get_session" THEN None ELSE SessionNotFound]_vars

\* A submission to an unknown id was refused while another session has
\* content.
C18_Witness ==
    /\ LastCall("handle_operation")
    /\ call.session_id \notin DOMAIN sessions
    /\ result = SessionNotFound
    /\ \E sid \in DOMAIN sessions : sessions[sid].document.version > 0

(***************************************************************************)
(* C19. Sessions are kept: no step removes a session id; a session that    *)
(* exists stays the same session (its id, its document, its log so far),   *)
(* and get_session of its id returns it.                                   *)
(***************************************************************************)
C19_SessionsKept ==
    [][/\ DOMAIN sessions \subseteq DOMAIN sessions'
       /\ \A sid \in DOMAIN sessions :
             /\ sessions'[sid].id = sid
             /\ sessions'[sid].document.id = sessions[sid].document.id
             /\ sessions'[sid].document.version >= sessions[sid].document.version
             /\ SubSeq(sessions'[sid].document.operations_history, 1,
                       Len(sessions[sid].document.operations_history))
                  = sessions[sid].document.operations_history
             /\ (Called("get_session") /\ call'.session_id = sid)
                => result' = [returned |-> "session", session_id |-> sid]]_vars

\* get_session returned a session that has content and no user, while both
\* sessions exist.
C19_Witness ==
    /\ LastCall("get_session")
    /\ result = [returned |-> "session", session_id |-> call.session_id]
    /\ sessions[call.session_id].document.version > 0
    /\ sessions[call.session_id].users = <<>>
    /\ DOMAIN sessions = RegistryIds

(***************************************************************************)
(* C20. remove_user only takes that user out of the session's users: the   *)
(* other users, the content, the version, the log (with the operations the *)
(* user had submitted) and the pending operations stay, and so does every  *)
(* other session.                                                          *)
(***************************************************************************)
C20_RemoveUser ==
    [][Called("remove_user")
       => LET sid == call'.session_id IN
          sessions' = [sessions EXCEPT
                         ![sid].users = DictPop(sessions[sid].users, call'.user_id)]]_vars

\* A user who had submitted the operation in the log left; the other user
\* is still in the session.
C20_Witness ==
    /\ LastCall("remove_user")
    /\ LET session == sessions[call.session_id] IN
       /\ call.user_id \notin DOMAIN session.users
       /\ session.users # <<>>
       /\ \E i \in 1..Len(session.document.operations_history) :
             session.document.operations_history[i].user_id = call.user_id

(***************************************************************************)
(* C21. User lifecycle: a user who has joined stays in the session's users *)
(* while their connection is open, and the step on which their connection  *)
(* disconnects takes them out: after it the user is not among              *)
(* get_state().users.                                                      *)
(***************************************************************************)
Connected(t) == tasks[t].pc \notin {"closed", "disconnected"}
StateUserIds(session) == {u.id : u \in get_state(session).users}

C21_UserLifecycle ==
    [][\A t \in DOMAIN tasks :
         TaskSession(t) \in DOMAIN sessions
         => /\ (Connected(t) /\ tasks'[t].pc # "disconnected"
                /\ TaskUser(t) \in StateUserIds(sessions[TaskSession(t)]))
               => TaskUser(t) \in StateUserIds(sessions'[TaskSession(t)])
            /\ (Connected(t) /\ tasks'[t].pc = "disconnected")
               => TaskUser(t) \notin StateUserIds(sessions'[TaskSession(t)])]_vars

(***************************************************************************)
(* C22. Broadcast: an operation a connection has committed is eventually   *)
(* sent, as the resolved operation with the new version, on every other    *)
(* connection of the session that stays open.                              *)
(***************************************************************************)
Committed(t) == tasks[t].pc = "send_json" /\ IsApplied(tasks[t].result)
Delivered(u, t) ==
    \E frame \in tasks[u].sent :
        /\ IsApplied(frame)
        /\ frame.operation = tasks[t].result.operation
        /\ frame.document_version = tasks[t].result.document_version

C22_Broadcast ==
    \A t \in Tasks : \A u \in Tasks \ {t} :
        (Committed(t) /\ Connected(u) /\ TaskSession(u) = TaskSession(t))
        ~> (Delivered(u, t) \/ ~Connected(u))

(***************************************************************************)
(* C23. Non-concurrent submissions are applied as submitted: an insert or  *)
(* delete whose base version is the document's current version succeeds,   *)
(* and the operation returned and logged is the submitted one, position    *)
(* and payload unchanged.  An insert at position 0 into an empty document  *)
(* gives the payload as content; an insert at the end appends.             *)
(***************************************************************************)
C23_AppliedAsSubmitted ==
    [][\A sid \in DOMAIN sessions :
         LET op == call'.operation
             before == sessions[sid].document
             after == sessions'[sid].document
         IN  (/\ Submitted(sid)
              /\ op.position_is_int
              /\ op.type \in {"insert", "delete"}
              /\ op.version = before.version)
             => /\ IsApplied(result')
                /\ result'.operation = op
                /\ Last(after.operations_history) = op
                /\ after.version = before.version + 1
                /\ (op.type = "insert" /\ op.position = 0 /\ before.content = <<>>)
                   => after.content = op.content
                /\ (op.type = "insert" /\ op.position = Len(before.content))
                   => after.content = before.content \o op.content]_vars

\* An insert at the end, based on version 1, was appended to the content of
\* version 1.
C23_Witness ==
    \E sid \in DOMAIN sessions :
        /\ LastCall("handle_operation")
        /\ call.session_id = sid
        /\ IsApplied(result)
        /\ call.operation.type = "insert"
        /\ call.operation.version = 1
        /\ call.operation.position = 2
        /\ sessions[sid].document.version = 2
        /\ sessions[sid].document.content = XX \o Hello

(***************************************************************************)
(* C24. Insert/Insert rule: for inserts a and b of two authors at the same *)
(* position, exactly one of transform(a, b) and transform(b, a) is shifted *)
(* right by the other's length and the other keeps its position; for       *)
(* a.position < b.position, transform(a, b) is b shifted by the length of  *)
(* a; for a.position > b.position it is b unchanged.                       *)
(***************************************************************************)
OpLen(op) == Len(op.content)
OpEnd(op) == op.position + Len(op.content)
BothTransformed == \A r \in Replicas : Transformed(r)

C24_InsertInsert ==
    (BothTransformed /\ otA.type = "insert" /\ otB.type = "insert")
    => LET ab == replica["left"].op
           ba == replica["right"].op
       IN  /\ otA.position = otB.position
              => \/ ab.position = otB.position + OpLen(otA) /\ ba.position = otA.position
                 \/ ab.position = otB.position /\ ba.position = otA.position + OpLen(otB)
           /\ otA.position < otB.position
              => ab.position = otB.position + OpLen(otA) /\ ba.position = otA.position
           /\ otA.position > otB.position
              => ab.position = otB.position /\ ba.position = otA.position + OpLen(otB)
           /\ ab.content = otB.content /\ ba.content = otA.content

(***************************************************************************)
(* C25. Insert/Delete rule: for an insert a and a delete b, if             *)
(* a.position <= b.position then transform(a, b) is b moved right by the   *)
(* length of a, with the same length; if a.position is strictly inside the *)
(* range of b then transform(a, b) keeps the position of b and is longer   *)
(* by the length of a.                                                     *)
(***************************************************************************)
C25_InsertDelete ==
    \A r \in Replicas :
        (Transformed(r) /\ First(r).type = "insert" /\ Second(r).type = "delete")
        => LET a == First(r)
               b == Second(r)
               ab == replica[r].op
           IN  /\ a.position <= b.position
                  => ab.position = b.position + OpLen(a) /\ OpLen(ab) = OpLen(b)
               /\ (b.position < a.position /\ a.position < OpEnd(b))
                  => ab.position = b.position /\ OpLen(ab) = OpLen(b) + OpLen(a)

(***************************************************************************)
(* C26. Delete/Insert rule: for a delete a and an insert b with            *)
(* a.position <= b.position, transform(a, b) is at                         *)
(* b.position - min(length of a, b.position - a.position), never below     *)
(* a.position and exactly a.position when b.position is inside the range   *)
(* of a; for b.position < a.position it is b unchanged.                    *)
(***************************************************************************)
C26_DeleteInsert ==
    \A r \in Replicas :
        (Transformed(r) /\ First(r).type = "delete" /\ Second(r).type = "insert")
        => LET a == First(r)
               b == Second(r)
               ab == replica[r].op
           IN  /\ a.position <= b.position
                  => /\ ab.position
                          = b.position - Min(OpLen(a), b.position - a.position)
                     /\ ab.position >= a.position
               /\ (a.position <= b.position /\ b.position < OpEnd(a))
                  => ab.position = a.position
               /\ b.position < a.position => ab = b

(***************************************************************************)
(* C27. Delete/Delete rule: for two deletes a and b, transform(a, b) is    *)
(* shorter than b by the overlap of the two ranges and further left by the *)
(* part of the range of a that lies before the range of b; a range of b    *)
(* covered by a gives a delete of length zero.                             *)
(***************************************************************************)
Overlap(a, b) ==
    Max(0, Min(OpEnd(a), OpEnd(b)) - Max(a.position, b.position))
PartBefore(a, b) == Max(0, Min(OpEnd(a), b.position) - a.position)

C27_DeleteDelete ==
    \A r \in Replicas :
        (Transformed(r) /\ First(r).type = "delete" /\ Second(r).type = "delete")
        => LET a == First(r)
               b == Second(r)
               ab == replica[r].op
           IN  /\ OpLen(ab) = OpLen(b) - Overlap(a, b)
               /\ ab.position = b.position - PartBefore(a, b)

(***************************************************************************)
(* C28. Effect of a successful apply: an insert of s at p, 0 <= p <=       *)
(* len(c), turns c into c[0..p) + s + c[p..), longer by len(s); a delete   *)
(* at p with a payload of length n, p + n <= len(c), turns c into          *)
(* c[0..p) + c[p+n..), shorter by n, whatever the characters of the        *)
(* payload; in both cases the operation is appended to the log and the     *)
(* version reported and recorded is the old one plus 1.                    *)
(***************************************************************************)
C28_ApplyEffect ==
    [][\A sid \in DOMAIN sessions :
         LET op == call'.operation
             c == sessions[sid].document.content
             after == sessions'[sid].document
             p == op.position
             n == Len(op.content)
         IN  (Submitted(sid) /\ op.position_is_int /\ p >= 0)
             => /\ (op.type = "insert" /\ p <= Len(c))
                   => /\ IsApplied(result')
                      /\ after.content
                           = SubSeq(c, 1, p) \o op.content \o SubSeq(c, p + 1, Len(c))
                      /\ Len(after.content) = Len(c) + n
                /\ (op.type = "delete" /\ p + n <= Len(c))
                   => /\ IsApplied(result')
                      /\ after.content = SubSeq(c, 1, p) \o SubSeq(c, p + n + 1, Len(c))
                      /\ Len(after.content) = Len(c) - n
                /\ (op.type \in {"insert", "delete"} /\ IsApplied(result'))
                   => /\ after.operations_history
                           = Append(sessions[sid].document.operations_history, op)
                      /\ after.version = sessions[sid].document.version + 1
                      /\ result'.document_version = after.version]_vars

\* A delete whose payload is not the text at its range removed the range.
C28_Witness ==
    \E sid \in DOMAIN sessions :
        /\ LastCall("handle_operation")
        /\ call.session_id = sid
        /\ IsApplied(result)
        /\ call.operation.type = "delete"
        /\ call.operation.content = XX
        /\ call.operation.position = 2
        /\ sessions[sid].document.content = <<"h", "e", "o">>

(***************************************************************************)
(* C29. pending_operations stays empty: after every step each session's    *)
(* pending_operations is the empty list, so the operation a successful     *)
(* submission returns and logs is the submitted operation, position and    *)
(* payload unchanged, whatever its base version.                           *)
(***************************************************************************)
C29_PendingEmpty ==
    [][\A sid \in DOMAIN sessions' :
         /\ sessions'[sid].pending_operations = <<>>
         /\ (sid \in DOMAIN sessions /\ Submitted(sid) /\ IsApplied(result'))
            => /\ result'.operation = call'.operation
               /\ Last(sessions'[sid].document.operations_history) = call'.operation
               /\ TransformAgainst(sessions[sid].pending_operations, call'.operation)
                    = call'.operation]_vars

\* An insert at 0 based on version 0 was applied, unshifted, to a document at
\* version 1 whose log holds an insert at 0.
C29_Witness ==
    \E sid \in DOMAIN sessions :
        /\ LastCall("handle_operation")
        /\ call.session_id = sid
        /\ IsApplied(result)
        /\ sessions[sid].document.version = 2
        /\ call.operation.type = "insert"
        /\ call.operation.version = 0
        /\ call.operation.position = 0
        /\ sessions[sid].document.operations_history[1].type = "insert"
        /\ sessions[sid].document.operations_history[1].position = 0
        /\ sessions[sid].document.operations_history[2] = call.operation

(***************************************************************************)
(* C30. Session membership: get_state().users has one entry per user id;   *)
(* a join puts the joining user's entry in place of any entry of that id,  *)
(* a leave takes the entry of that id out and changes nothing if there is  *)
(* none, every other step leaves the entries as they are; get_state        *)
(* changes no session and reports the document's content and version.      *)
(***************************************************************************)
Entries(session) == get_state(session).users
Without(entries, user_id) == {u \in entries : u.id # user_id}

C30_Membership ==
    [][\A sid \in DOMAIN sessions :
         LET before == Entries(sessions[sid])
             after == Entries(sessions'[sid])
             on == "method" \in DOMAIN call' /\ call'.session_id = sid
         IN  /\ Cardinality({u.id : u \in after}) = Cardinality(after)
             /\ {u.id : u \in after} = DOMAIN sessions'[sid].users
             /\ IF on /\ call'.method = "join_session"
                THEN after = Without(before, call'.user_id)
                               \cup {[id |-> call'.user_id,
                                      username |-> call'.username,
                                      cursor |-> 0]}
                ELSE IF on /\ call'.method = "remove_user"
                THEN /\ after = Without(before, call'.user_id)
                     /\ call'.user_id \notin {u.id : u \in before}
                        => sessions' = sessions
                ELSE after = before
             /\ (on /\ call'.method = "get_state")
                => /\ sessions' = sessions
                   /\ result'.users = before
                   /\ result'.content = sessions[sid].document.content
                   /\ result'.version = sessions[sid].document.version]_vars

\* user1 joined again under another username while user2 is in the session:
\* the state lists two users.
C30_Witness ==
    \E sid \in DOMAIN sessions :
        /\ LastCall("join_session")
        /\ call.session_id = sid
        /\ call.user_id = "user1"
        /\ call.username = "Bob"
        /\ sessions[sid].document.version > 0
        /\ Entries(sessions[sid])
             = {[id |-> "user1", username |-> "Bob", cursor |-> 0],
                [id |-> "user2", username |-> "Alice", cursor |-> 0]}

(***************************************************************************)
(* C31. Training job lifecycle: after every step each job id is in at most *)
(* one of active_jobs and completed_jobs and at most once in               *)
(* completed_jobs, no job's status moves other than pending -> running ->  *)
(* completed, and no call of start_training that found its job has raised. *)
(***************************************************************************)
CompletedIds(completed) == [i \in DOMAIN completed |-> jobs'[completed[i]].id]
StatusRank(status) ==
    IF status = "pending" THEN 0 ELSE IF status = "running" THEN 1 ELSE 2

C31_JobLifecycle ==
    [][/\ \A job_id \in JobIds :
            LET times == Cardinality({i \in DOMAIN completed_jobs' :
                                        CompletedIds(completed_jobs')[i] = job_id})
            IN  /\ times <= 1
                /\ ~(job_id \in DOMAIN active_jobs' /\ times > 0)
       /\ \A job \in DOMAIN jobs :
            StatusRank(jobs'[job].status) >= StatusRank(jobs[job].status)
       /\ \A t \in DOMAIN starts' : starts'[t].pc # "raised"]_vars

=============================================================================
